---- MODULE Spec2Model ----
(***************************************************************************)
(* The decision/execution pipeline of the MT5 scalping bot, in the two     *)
(* variants the repository ships:                                          *)
(*   "controller" : src/controller.py  (AnalysisWorker + BotController)    *)
(*   "production" : src/production_mt5_bot.py (MarketAnalysisWorker +      *)
(*                  MT5TradingController)                                  *)
(* A behaviour runs one variant (chosen in Init).  The analysis worker is  *)
(* a QThread; its signal_ready / signal_generated emissions reach the      *)
(* controller's slot through Qt's queued connection, modelled by sigQueue. *)
(* The venue (MetaTrader5) is the environment: its answers are drawn with  *)
(* \E in the actions that call it.                                         *)
(***************************************************************************)
EXTENDS Integers, Sequences, FiniteSets, TLC

(* ------------------------------ bounds --------------------------------- *)
\* clock advances per behaviour
MaxTicks == 2
\* signal events waiting in the Qt event queue
MaxQueue == 1
\* config['max_trades_per_day'] (default 10, controller.py:409; set_config
\* may change it): the model runs the gate with a small limit
MaxTradesPerDay == 2

\* open positions the venue reports
MaxPositions == 1

(* -------------------------- program constants -------------------------- *)
\* AnalysisWorker.signal_cooldown
signal_cooldown == 5
\* MarketAnalysisWorker.generate_signals: "once per 30 seconds"
prod_signal_cooldown == 30
\* check_enhanced_risk_limits: consecutive_losses >= 3
max_consecutive_losses == 3
\* check_enhanced_risk_limits: drawdown > 3.0 (percent)
max_drawdown_percent == 3
\* mt5.TIMEFRAME_M1: the entry timeframe's bar, in seconds
BarSeconds == 60
\* datetime.timedelta: .seconds is the remainder of the day
SecondsPerDay == 24 * 60 * 60
\* the clock when the objects are constructed (start of a calendar day)
NowStart == SecondsPerDay
\* manual trades are not gated; the model stops counting one past the limit
DailyTradesCap == MaxTradesPerDay + 1

Variants == {"controller", "production"}
Sides == {"BUY", "SELL"}
\* what one analysis cycle finds in the market: no data from the adapter,
\* data but no entry, or a directional signal
Markets == {"NODATA", "NONE"} \cup Sides
\* mt5.order_send: TRADE_RETCODE_DONE, an unsupported-filling rejection,
\* another rejection, or no result object at all (None)
Retcodes == {"DONE", "FILL", "REJECT", "NONE"}
\* the clock steps the environment takes: one second, a step that lands on
\* (controller.py) or just before (production_mt5_bot.py) the variant's
\* cooldown boundary, and a day
ClockSteps(v) ==
    IF v = "controller"
    THEN {1, signal_cooldown, SecondsPerDay}
    ELSE {1, prod_signal_cooldown - 1, SecondsPerDay}
\* which history a behaviour records: the worker's cycles, the controller's
\* pipeline operations or its close-all operations (the program's own
\* variables do not depend on it)
Observers == {"worker", "pipeline", "closing"}

\* mt5.account_info()._asdict(), reduced to the fields the pipeline reads
NoAccount == [present |-> FALSE, balance |-> 0, equity |-> 0]
AccountSnapshots ==
    { [present |-> TRUE, balance |-> 1000, equity |-> 1000],
      [present |-> TRUE, balance |-> 1000, equity |-> 970],
      [present |-> TRUE, balance |-> 1000, equity |-> 960] }

\* _last_signal_time before the first signal (the attribute does not exist)
NoTime == 0 - 1

VARIABLES
    variant,            \* which program runs
    observe,            \* which history is recorded
    time_is_module,     \* controller.py: what the name `time` is bound to
    is_connected,
    is_running,         \* BotController.is_running
    shadow_mode,        \* BotController.shadow_mode
    shadow_mode_cb,     \* MainWindow.shadow_mode_cb (checkbox)
    demo_mode,          \* MT5TradingController.demo_mode
    auto_trading,       \* MT5TradingController.auto_trading
    demo_mode_cb,       \* MainTradingGUI.demo_mode_cb (checkbox)
    daily_trades,
    daily_pnl,
    consecutive_losses,
    last_reset_date,
    account_info,
    positions,          \* len(BotController.positions), the last snapshot
    worker_running,     \* analysis_worker exists and its thread runs
    indicators_ok,      \* current_indicators holds an M1 and an M5 snapshot
    last_signal_time,   \* AnalysisWorker.last_signal_time / _last_signal_time
    now,                \* wall clock, seconds
    ticks,              \* clock advances so far (bounded by MaxTicks)
    sigQueue,           \* queued signal_ready / signal_generated events
    counted_date,       \* history: the date of the last order counted
    calc,               \* history: the last calculation applied to inputs
    wlast,              \* history: the worker's last analysis cycle
    last                \* history: the controller's last pipeline operation

modeVars == <<variant, observe, time_is_module, shadow_mode, shadow_mode_cb>>
prodVars == <<demo_mode, auto_trading, demo_mode_cb>>
riskVars == <<daily_trades, daily_pnl, consecutive_losses, last_reset_date>>
clockVars == <<now, ticks>>
vars == <<modeVars, prodVars, riskVars, clockVars, is_connected, is_running,
          account_info, positions, worker_running, indicators_ok,
          last_signal_time, sigQueue, counted_date, calc, wlast, last>>

\* datetime.now().date()
Today(t) == t \div SecondsPerDay

\* the open time of the M1 bar that is the latest one at time t
Bar(t) == t \div BarSeconds

(* ------------------------- history records ----------------------------- *)
\* The controller's last pipeline operation.  op: the entry point; gate:
\* the Risk Gate's verdict; execs: how many times the order-execution
\* routine has been entered for this intent, this time included (0: not
\* entered); fill_first: the venue rejects a first submission with a
\* fill-mode error; retry_ok: and accepts a second one; attempts:
\* order_send calls made; outcome; rows: audit rows written; dt_before,
\* cl_before: the counters when the operation began; stale: when the
\* intent was gated daily_trades held only orders counted on an earlier
\* calendar date and last_reset_date was an earlier date too.
\* For op = "close_all": open: the positions open at the venue when the
\* operation began; reachable: the venue answered the request for them;
\* attempted: positions for which a closing order was tried; closed: those
\* whose closing order was done; rep_closed, rep_failed: the successes and
\* failures the operation reported; stopped: when it returned the bot was
\* not running and no analysis worker was running.
NoLast ==
    [op |-> "none", gate |-> "na", execs |-> 0, fill_first |-> FALSE,
     retry_ok |-> FALSE, attempts |-> 0, outcome |-> "NONE", rows |-> 0,
     dt_before |-> 0, cl_before |-> 0, stale |-> FALSE,
     open |-> 0, reachable |-> FALSE, attempted |-> 0, closed |-> 0,
     rep_closed |-> 0, rep_failed |-> 0, stopped |-> FALSE]

\* The worker's last analysis cycle.  gen: the cycle produced a directional
\* signal; prev: an earlier signal of this worker was emitted; elapsed:
\* seconds since that emission; emitted: the signal was sent to the
\* controller; error: the cycle ended in the "Analysis error" branch;
\* same_bar: the latest bar of this cycle is the bar in which that earlier
\* signal was emitted; stale_bars: the cycle produced its signal although the
\* adapter gave no bar history in this cycle.
NoCycle ==
    [gen |-> FALSE, prev |-> FALSE, elapsed |-> 0, emitted |-> FALSE,
     error |-> FALSE, same_bar |-> FALSE, stale_bars |-> FALSE]

\* The date of the last order counted in daily_trades, after a step that
\* counts inc orders now.
Counted(inc) ==
    IF inc > 0 /\ observe = "pipeline" THEN Today(now) ELSE counted_date

\* No calculation applied yet.  A calculation's record holds fn, the
\* routine applied, its inputs and its result.
NoCalc == [fn |-> "none"]

Seen(rec) == IF observe = "pipeline" THEN rec ELSE NoLast
SeenCycle(rec) == IF observe = "worker" THEN rec ELSE NoCycle
SeenClosing(rec) == IF observe = "closing" THEN rec ELSE last

(* --------------------------- Risk Gate --------------------------------- *)
drawdown_exceeded(acct) ==
    /\ acct.present
    /\ acct.balance > 0
    /\ (acct.balance - acct.equity) * 100 > max_drawdown_percent * acct.balance

check_enhanced_risk_limits_offByOne(dt, cl, acct) ==
    IF dt > MaxTradesPerDay THEN "daily_limit"
    ELSE IF cl >= max_consecutive_losses THEN "loss_limit"
    ELSE IF drawdown_exceeded(acct) THEN "drawdown"
    ELSE "ok"

\* BotController.check_enhanced_risk_limits: the reason of the first failing
\* check, "ok" when it returns True
check_enhanced_risk_limits(dt, cl, acct) ==
    IF dt >= MaxTradesPerDay THEN "daily_limit"
    ELSE IF cl >= max_consecutive_losses THEN "loss_limit"
    ELSE IF drawdown_exceeded(acct) THEN "drawdown"
    ELSE "ok"

(* ---------------------- Execution Coordinator -------------------------- *)
Outcome(att, out, rows, inc) ==
    [attempts |-> att, outcome |-> out, rows |-> rows, dt_inc |-> inc]

\* order_send with the IOC -> FOK fallback of controller.py: the second
\* submission follows any first retcode other than DONE; a None result
\* raises at result.retcode and leaves through the except branch.
SendWithFallback(r1, r2) ==
    IF r1 = "NONE" THEN [attempts |-> 1, final |-> "NONE"]
    ELSE IF r1 = "DONE" THEN [attempts |-> 1, final |-> "DONE"]
    ELSE [attempts |-> 2, final |-> r2]

execute_enhanced_signal_countsAttempts(connected, tick_ok, r1, r2) ==
    IF ~connected \/ ~tick_ok
    THEN Outcome(0, "REJECTED", 0, 0)
    ELSE LET s == SendWithFallback(r1, r2) IN
         IF s.final = "DONE"
         THEN Outcome(s.attempts, "ACCEPTED", 1, s.attempts)
         ELSE Outcome(s.attempts, "REJECTED", 0, 0)

\* BotController.execute_enhanced_signal
execute_enhanced_signal(connected, tick_ok, r1, r2) ==
    IF ~connected \/ ~tick_ok
    THEN Outcome(0, "REJECTED", 0, 0)
    ELSE LET s == SendWithFallback(r1, r2) IN
         IF s.final = "DONE"
         THEN Outcome(s.attempts, "ACCEPTED", 1, 1)
         ELSE Outcome(s.attempts, "REJECTED", 0, 0)

\* BotController.execute_manual_trade: the same submission, no audit row
execute_manual_trade(connected, tick_ok, r1, r2) ==
    IF ~connected \/ ~tick_ok
    THEN Outcome(0, "REJECTED", 0, 0)
    ELSE LET s == SendWithFallback(r1, r2) IN
         IF s.final = "DONE"
         THEN Outcome(s.attempts, "ACCEPTED", 0, 1)
         ELSE Outcome(s.attempts, "REJECTED", 0, 0)

\* MT5TradingController.execute_trade: one submission; a row is written for
\* SUCCESS and for FAILED
execute_trade(r1) ==
    IF r1 = "DONE"
    THEN Outcome(1, "ACCEPTED", 1, 0)
    ELSE Outcome(1, "REJECTED", 1, 0)

(* ---------------------------- Signal Gate ------------------------------ *)
\* AnalysisWorker.run: (time.time() - self.last_signal_time) > cooldown
CooldownElapsed(t, lst) == (t - lst) > signal_cooldown

\* generate_signals: (current_time - self._last_signal_time).seconds < 30
ProdInCooldown(t, lst) ==
    /\ lst # NoTime
    /\ ((t - lst) % SecondsPerDay) < prod_signal_cooldown

(* ------------------------------- Init ---------------------------------- *)
\* BotController.__init__ / MT5TradingController.__init__.  shadow_mode is
\* constructed True and no method of BotController assigns it; it is a
\* public attribute, and both of its values are admitted so that the live
\* branch of handle_trading_signal is part of the model.  obs: the
\* histories a behaviour may record.
Start(obs) ==
    /\ variant \in Variants
    /\ observe \in obs
    /\ time_is_module \in (IF variant = "controller" THEN BOOLEAN ELSE {TRUE})
    /\ shadow_mode \in (IF variant = "controller" THEN BOOLEAN ELSE {TRUE})
    /\ shadow_mode_cb = TRUE
    /\ is_connected = FALSE
    /\ is_running = FALSE
    /\ demo_mode = FALSE
    /\ auto_trading = FALSE
    /\ demo_mode_cb = TRUE
    /\ daily_trades = 0
    /\ daily_pnl = 0
    /\ consecutive_losses = 0
    /\ now = NowStart
    /\ ticks = 0
    /\ last_reset_date = Today(NowStart)
    /\ account_info = NoAccount
    /\ positions = 0
    /\ worker_running = FALSE
    /\ indicators_ok = FALSE
    /\ last_signal_time = (IF variant = "controller" THEN 0 ELSE NoTime)
    /\ sigQueue = <<>>
    /\ counted_date = Today(NowStart)
    /\ calc = NoCalc
    /\ wlast = NoCycle
    /\ last = NoLast

Init == Start({"worker", "pipeline"})

(* ------------------------------ clock ---------------------------------- *)
Tick ==
    /\ ticks < MaxTicks
    /\ \E d \in ClockSteps(variant) : now' = now + d
    /\ ticks' = ticks + 1
    /\ UNCHANGED <<modeVars, calc, positions, counted_date, prodVars,
                   riskVars, is_connected, is_running, account_info,
                   worker_running, indicators_ok, last_signal_time, sigQueue,
                   wlast, last>>

(* --------------------------- BotController ----------------------------- *)
\* BotController.start_analysis_worker: a new AnalysisWorker, started
StartedWorker ==
    /\ worker_running' = TRUE
    /\ last_signal_time' = 0

ConnectResults == {"fail", "fail_symbol", "ok"}

\* BotController.connect_mt5
ConnectMt5 ==
    /\ variant = "controller"
    /\ \E res \in ConnectResults, acct \in AccountSnapshots :
         CASE res = "fail" ->
                UNCHANGED <<account_info, is_connected, worker_running,
                            last_signal_time>>
           [] res = "fail_symbol" ->
                /\ account_info' = acct
                /\ UNCHANGED <<is_connected, worker_running, last_signal_time>>
           [] OTHER ->
                /\ account_info' = acct
                /\ is_connected' = TRUE
                /\ StartedWorker
    /\ UNCHANGED <<modeVars, calc, positions, counted_date, prodVars,
                   riskVars, clockVars, is_running, indicators_ok, sigQueue,
                   wlast, last>>

\* BotController.start_bot
StartBot ==
    /\ variant = "controller"
    /\ IF ~is_connected
       THEN UNCHANGED <<is_running, worker_running, last_signal_time>>
       ELSE /\ is_running' = TRUE
            /\ IF ~worker_running
               THEN StartedWorker
               ELSE UNCHANGED <<worker_running, last_signal_time>>
    /\ UNCHANGED <<modeVars, calc, positions, counted_date, prodVars,
                   riskVars, clockVars, is_connected, account_info,
                   indicators_ok, sigQueue, wlast, last>>

StopBot_resetsCounters ==
    /\ variant = "controller"
    /\ is_running' = FALSE
    /\ worker_running' = FALSE
    /\ daily_trades' = 0
    /\ UNCHANGED <<modeVars, calc, positions, counted_date, prodVars,
                   daily_pnl, consecutive_losses, last_reset_date, clockVars,
                   is_connected, account_info, indicators_ok,
                   last_signal_time, sigQueue, wlast, last>>

\* BotController.stop_bot
StopBot ==
    /\ variant = "controller"
    /\ is_running' = FALSE
    /\ worker_running' = FALSE
    /\ UNCHANGED <<modeVars, calc, positions, counted_date, prodVars,
                   riskVars, clockVars, is_connected, account_info,
                   indicators_ok, last_signal_time, sigQueue, wlast, last>>

\* disconnect_mt5 without its stop_bot call
DisconnectMt5_keepsRunning ==
    /\ variant = "controller"
    /\ is_connected' = FALSE
    /\ UNCHANGED <<modeVars, calc, positions, counted_date, prodVars,
                   riskVars, clockVars, is_running, worker_running,
                   account_info, indicators_ok, last_signal_time, sigQueue,
                   wlast, last>>

\* BotController.disconnect_mt5
DisconnectMt5 ==
    /\ variant = "controller"
    /\ is_running' = FALSE
    /\ worker_running' = FALSE
    /\ is_connected' = FALSE
    /\ UNCHANGED <<modeVars, calc, positions, counted_date, prodVars,
                   riskVars, clockVars, account_info, indicators_ok,
                   last_signal_time, sigQueue, wlast, last>>

\* mt5.positions_get in close_all_positions: it raises, returns None, or
\* returns the tuple of open positions
PositionsGetResults == {"raise", "none", "list"}

\* BotController.close_all_positions: returns at once when not connected;
\* leaves through the outer except when positions_get raises; stops the bot
\* when there is nothing to close and after the closing attempts, each of
\* which runs in its own try block.  The venue holds n open positions, of
\* which k would close when asked.
CloseAllPositions ==
    /\ variant = "controller"
    /\ \E res \in PositionsGetResults, n \in 0..MaxPositions,
          k \in 0..MaxPositions :
         /\ k <= n
         /\ LET stops == is_connected /\ res # "raise"
                listed == is_connected /\ res = "list"
                tried == IF listed THEN n ELSE 0
                done == IF listed THEN k ELSE 0
            IN /\ is_running' = (IF stops THEN FALSE ELSE is_running)
               /\ worker_running' =
                     (IF stops THEN FALSE ELSE worker_running)
               /\ last' = SeenClosing(
                     [NoLast EXCEPT !.op = "close_all",
                        !.open = n, !.reachable = listed,
                        !.attempted = tried, !.closed = done,
                        !.rep_closed = done, !.rep_failed = tried - done,
                        !.stopped = (~is_running' /\ ~worker_running')])
    /\ UNCHANGED <<modeVars, calc, positions, counted_date, prodVars,
                   riskVars, clockVars, is_connected, account_info,
                   indicators_ok, last_signal_time, sigQueue, wlast>>

\* update_account_info (account_timer), both variants: a None answer of the
\* venue keeps the previous snapshot
UpdateAccountInfo ==
    /\ is_connected
    /\ \E a \in AccountSnapshots \cup {NoAccount} :
         account_info' = (IF a.present THEN a ELSE account_info)
    /\ UNCHANGED <<modeVars, calc, positions, counted_date, prodVars,
                   riskVars, clockVars, is_connected, is_running,
                   worker_running, indicators_ok, last_signal_time, sigQueue,
                   wlast, last>>

\* update_positions counting a loss whenever the snapshot shrinks
UpdatePositions_countsLoss ==
    /\ variant = "controller"
    /\ is_connected
    /\ \E open \in 0..MaxPositions :
         /\ positions' = open
         /\ consecutive_losses' =
               (IF /\ open < positions
                   /\ consecutive_losses < max_consecutive_losses
                THEN consecutive_losses + 1 ELSE consecutive_losses)
    /\ UNCHANGED <<modeVars, calc, counted_date, prodVars, daily_trades,
                   daily_pnl, last_reset_date, clockVars, is_connected,
                   is_running, account_info, worker_running, indicators_ok,
                   last_signal_time, sigQueue, wlast, last>>

\* BotController.update_positions (position_timer): the snapshot of the
\* venue's open positions replaces self.positions; nothing else is written
UpdatePositions ==
    /\ variant = "controller"
    /\ is_connected
    /\ \E open \in 0..MaxPositions : positions' = open
    /\ UNCHANGED <<modeVars, calc, counted_date, prodVars, riskVars,
                   clockVars, is_connected, is_running, account_info,
                   worker_running, indicators_ok, last_signal_time, sigQueue,
                   wlast, last>>

\* AnalysisWorker.run, one pass of the loop body
WorkerCycle ==
    /\ variant = "controller"
    /\ worker_running
    /\ Len(sigQueue) < MaxQueue
    /\ \E alive \in BOOLEAN, bars_ok \in BOOLEAN, mkt \in Markets :
         LET side == IF is_connected /\ alive /\ bars_ok /\ mkt \in Sides
                     THEN mkt ELSE "NONE"
             gen == side \in Sides
             prev == last_signal_time # 0
             seen == [NoCycle EXCEPT !.gen = gen, !.prev = gen /\ prev,
                        !.elapsed = IF gen /\ prev
                                    THEN now - last_signal_time ELSE 0,
                        !.same_bar = (gen /\ prev /\
                                      Bar(now) = Bar(last_signal_time)),
                        !.stale_bars = (gen /\ ~bars_ok)]
         IN
         IF ~gen
         THEN /\ wlast' = SeenCycle(seen)
              /\ UNCHANGED <<sigQueue, last_signal_time>>
         ELSE IF ~time_is_module
         THEN /\ wlast' = SeenCycle([seen EXCEPT !.error = TRUE])
              /\ UNCHANGED <<sigQueue, last_signal_time>>
         ELSE IF CooldownElapsed(now, last_signal_time)
         THEN /\ sigQueue' = Append(sigQueue, [side |-> side, execs |-> 0])
              /\ last_signal_time' = now
              /\ wlast' = SeenCycle([seen EXCEPT !.emitted = TRUE])
         ELSE /\ wlast' = SeenCycle(seen)
              /\ UNCHANGED <<sigQueue, last_signal_time>>
    /\ UNCHANGED <<modeVars, calc, positions, counted_date, prodVars,
                   riskVars, clockVars, is_connected, is_running,
                   account_info, worker_running, indicators_ok, last>>

live_execution_ignoresShadow(shadow, running) == running

\* handle_trading_signal: `if not self.shadow_mode and self.is_running`
live_execution(shadow, running) == ~shadow /\ running

\* BotController.handle_trading_signal, the slot of signal_ready
HandleTradingSignal ==
    /\ variant = "controller"
    /\ sigQueue # <<>>
    /\ sigQueue' = Tail(sigQueue)
    /\ LET sig == Head(sigQueue)
           gate == check_enhanced_risk_limits(daily_trades,
                                              consecutive_losses, account_info)
           seen == [NoLast EXCEPT !.op = "auto", !.gate = gate,
                      !.dt_before = daily_trades,
                      !.cl_before = consecutive_losses,
                      !.stale = (daily_trades > 0
                                   /\ counted_date < Today(now)
                                   /\ last_reset_date < Today(now))]
       IN
       IF gate # "ok"
       THEN /\ last' = Seen(seen)
            /\ UNCHANGED <<daily_trades, counted_date>>
       ELSE IF live_execution(shadow_mode, is_running)
       THEN \E tick_ok \in BOOLEAN, r1 \in Retcodes, r2 \in Retcodes :
              LET o == execute_enhanced_signal(is_connected, tick_ok, r1, r2)
              IN /\ daily_trades' = daily_trades + o.dt_inc
                 /\ counted_date' = Counted(o.dt_inc)
                 /\ last' = Seen([seen EXCEPT !.execs = sig.execs + 1,
                               !.fill_first = (r1 = "FILL"),
                               !.retry_ok = (r1 = "FILL" /\ r2 = "DONE"),
                               !.attempts = o.attempts,
                               !.outcome = o.outcome, !.rows = o.rows])
       ELSE /\ last' = Seen(seen)
            /\ UNCHANGED <<daily_trades, counted_date>>
    /\ UNCHANGED <<modeVars, calc, positions, prodVars, daily_pnl,
                   consecutive_losses, last_reset_date, clockVars,
                   is_connected, is_running, account_info, worker_running,
                   indicators_ok, last_signal_time, wlast>>

ExecuteManualTrade_countsLoss ==
    /\ variant = "controller"
    /\ daily_trades < DailyTradesCap
    /\ \E tick_ok \in BOOLEAN, r1 \in Retcodes, r2 \in Retcodes :
         LET o == execute_manual_trade(is_connected, tick_ok, r1, r2)
         IN /\ daily_trades' = daily_trades + o.dt_inc
            /\ counted_date' = Counted(o.dt_inc)
            /\ consecutive_losses' = consecutive_losses + o.dt_inc
            /\ last' = Seen([NoLast EXCEPT !.op = "manual", !.execs = 1,
                          !.fill_first = (r1 = "FILL"),
                          !.retry_ok = (r1 = "FILL" /\ r2 = "DONE"),
                          !.attempts = o.attempts,
                          !.outcome = o.outcome, !.rows = o.rows,
                          !.dt_before = daily_trades,
                          !.cl_before = consecutive_losses])
    /\ UNCHANGED <<modeVars, calc, positions, prodVars, daily_pnl,
                   last_reset_date, clockVars, is_connected, is_running,
                   account_info, worker_running, indicators_ok,
                   last_signal_time, sigQueue, wlast>>

\* BotController.execute_manual_trade
ExecuteManualTrade ==
    /\ variant = "controller"
    /\ daily_trades < DailyTradesCap
    /\ \E tick_ok \in BOOLEAN, r1 \in Retcodes, r2 \in Retcodes :
         LET o == execute_manual_trade(is_connected, tick_ok, r1, r2)
         IN /\ daily_trades' = daily_trades + o.dt_inc
            /\ counted_date' = Counted(o.dt_inc)
            /\ last' = Seen([NoLast EXCEPT !.op = "manual", !.execs = 1,
                          !.fill_first = (r1 = "FILL"),
                          !.retry_ok = (r1 = "FILL" /\ r2 = "DONE"),
                          !.attempts = o.attempts,
                          !.outcome = o.outcome, !.rows = o.rows,
                          !.dt_before = daily_trades,
                          !.cl_before = consecutive_losses])
    /\ UNCHANGED <<modeVars, calc, positions, prodVars, daily_pnl,
                   consecutive_losses, last_reset_date, clockVars,
                   is_connected, is_running, account_info, worker_running,
                   indicators_ok, last_signal_time, sigQueue, wlast>>

(* ------------------------ MT5TradingController ------------------------- *)
\* MT5TradingController.connect_to_mt5
ConnectToMt5 ==
    /\ variant = "production"
    /\ \E res \in ConnectResults, acct \in AccountSnapshots :
         CASE res = "fail" -> UNCHANGED <<account_info, is_connected>>
           [] res = "fail_symbol" ->
                /\ account_info' = acct
                /\ UNCHANGED is_connected
           [] OTHER ->
                /\ account_info' = acct
                /\ is_connected' = TRUE
    /\ UNCHANGED <<modeVars, calc, positions, counted_date, prodVars,
                   riskVars, clockVars, is_running, worker_running,
                   indicators_ok, last_signal_time, sigQueue, wlast, last>>

\* MT5TradingController.start_analysis: a new MarketAnalysisWorker
StartAnalysis ==
    /\ variant = "production"
    /\ IF ~is_connected
       THEN UNCHANGED <<worker_running, last_signal_time>>
       ELSE /\ worker_running' = TRUE
            /\ last_signal_time' = NoTime
    /\ UNCHANGED <<modeVars, calc, positions, counted_date, prodVars,
                   riskVars, clockVars, is_connected, is_running,
                   account_info, indicators_ok, sigQueue, wlast, last>>

\* MT5TradingController.stop_analysis
StopAnalysis ==
    /\ variant = "production"
    /\ worker_running' = FALSE
    /\ UNCHANGED <<modeVars, calc, positions, counted_date, prodVars,
                   riskVars, clockVars, is_connected, is_running,
                   account_info, indicators_ok, last_signal_time, sigQueue,
                   wlast, last>>

\* MT5TradingController.disconnect_from_mt5
DisconnectFromMt5 ==
    /\ variant = "production"
    /\ worker_running' = FALSE
    /\ is_connected' = FALSE
    /\ UNCHANGED <<modeVars, calc, positions, counted_date, prodVars,
                   riskVars, clockVars, is_running, account_info,
                   indicators_ok, last_signal_time, sigQueue, wlast, last>>

\* MainTradingGUI.on_auto_trading_toggled
OnAutoTradingToggled ==
    /\ variant = "production"
    /\ auto_trading' = ~auto_trading
    /\ UNCHANGED <<modeVars, calc, positions, counted_date, demo_mode,
                   demo_mode_cb, riskVars, clockVars, is_connected,
                   is_running, account_info, worker_running, indicators_ok,
                   last_signal_time, sigQueue, wlast, last>>

\* MainTradingGUI.on_demo_mode_toggled
OnDemoModeToggled ==
    /\ variant = "production"
    /\ demo_mode_cb' = ~demo_mode_cb
    /\ demo_mode' = demo_mode_cb'
    /\ UNCHANGED <<modeVars, calc, positions, counted_date, auto_trading,
                   riskVars, clockVars, is_connected, is_running,
                   account_info, worker_running, indicators_ok,
                   last_signal_time, sigQueue, wlast, last>>

\* MT5TradingController.update_positions (positions_timer): a None answer
\* keeps the previous snapshot
ProdUpdatePositions ==
    /\ variant = "production"
    /\ is_connected
    /\ \E open \in 0..MaxPositions : positions' = open
    /\ UNCHANGED <<modeVars, calc, counted_date, prodVars, riskVars,
                   clockVars, is_connected, is_running, account_info,
                   worker_running, indicators_ok, last_signal_time, sigQueue,
                   wlast, last>>

\* MT5TradingController.close_all_positions: close_position for every
\* entry of the self.positions snapshot; the worker is left as it is.  The
\* venue holds n open positions; k of the snapshot's entries close.
ProdCloseAllPositions ==
    /\ variant = "production"
    /\ \E n \in 0..MaxPositions, k \in 0..MaxPositions :
         /\ k <= n
         /\ k <= positions
         /\ k > 0 => is_connected
         /\ last' = SeenClosing(
               [NoLast EXCEPT !.op = "close_all", !.open = n,
                  !.reachable = is_connected,
                  !.attempted = positions, !.closed = k,
                  !.rep_closed = k, !.rep_failed = positions - k,
                  !.stopped = (~is_running /\ ~worker_running)])
    /\ UNCHANGED <<modeVars, calc, positions, counted_date, prodVars,
                   riskVars, clockVars, is_connected, is_running,
                   account_info, worker_running, indicators_ok,
                   last_signal_time, sigQueue, wlast>>

\* the history record of one execute_trade call
TradeRecord(op, execs, r1, r2) ==
    LET o == execute_trade(r1)
    IN Seen([NoLast EXCEPT !.op = op, !.execs = execs,
               !.fill_first = (r1 = "FILL"),
               !.retry_ok = (r1 = "FILL" /\ r2 = "DONE"),
               !.attempts = o.attempts, !.outcome = o.outcome,
               !.rows = o.rows])

\* MarketAnalysisWorker.run, one pass: process_tick_data, process_bar_data,
\* generate_signals (which also calls execute_trade itself)
ProdWorkerCycle ==
    /\ variant = "production"
    /\ worker_running
    /\ Len(sigQueue) < MaxQueue
    /\ \E bars_ok \in BOOLEAN, mkt \in Markets, r1 \in Retcodes,
          r2 \in Retcodes :
         LET have == is_connected /\ (indicators_ok \/ bars_ok)
             gen == have /\ mkt \in Sides
             prev == last_signal_time # NoTime
             seen == [NoCycle EXCEPT !.gen = gen, !.prev = gen /\ prev,
                        !.elapsed = IF gen /\ prev
                                    THEN now - last_signal_time ELSE 0,
                        !.same_bar = (gen /\ prev /\
                                      Bar(now) = Bar(last_signal_time)),
                        !.stale_bars = (gen /\ ~bars_ok)]
         IN
         /\ indicators_ok' = (indicators_ok \/ (is_connected /\ bars_ok))
         /\ IF ~gen \/ ProdInCooldown(now, last_signal_time)
            THEN /\ wlast' = SeenCycle(seen)
                 /\ UNCHANGED <<sigQueue, last_signal_time, last>>
            ELSE /\ wlast' = SeenCycle([seen EXCEPT !.emitted = TRUE])
                 /\ last_signal_time' = now
                 /\ IF ~demo_mode /\ auto_trading
                    THEN /\ sigQueue' = Append(sigQueue,
                                           [side |-> mkt, execs |-> 1])
                         /\ last' = TradeRecord("direct", 1, r1, r2)
                    ELSE /\ sigQueue' = Append(sigQueue,
                                           [side |-> mkt, execs |-> 0])
                         /\ UNCHANGED last
    /\ UNCHANGED <<modeVars, calc, positions, counted_date, prodVars,
                   riskVars, clockVars, is_connected, is_running,
                   account_info, worker_running>>

\* MT5TradingController.handle_trading_signal, the slot of signal_generated
ProdHandleTradingSignal ==
    /\ variant = "production"
    /\ sigQueue # <<>>
    /\ sigQueue' = Tail(sigQueue)
    /\ LET sig == Head(sigQueue) IN
       IF auto_trading /\ ~demo_mode
       THEN \E r1 \in Retcodes, r2 \in Retcodes :
              last' = TradeRecord("prod_auto", sig.execs + 1, r1, r2)
       ELSE last' = Seen([NoLast EXCEPT !.op = "prod_auto"])
    /\ UNCHANGED <<modeVars, calc, positions, counted_date, prodVars,
                   riskVars, clockVars, is_connected, is_running,
                   account_info, worker_running, indicators_ok,
                   last_signal_time, wlast>>

(* ------------------------------- Spec ---------------------------------- *)
Next ==
    \/ Tick
    \/ ConnectMt5
    \/ StartBot
    \/ StopBot
    \/ DisconnectMt5
    \/ CloseAllPositions
    \/ UpdateAccountInfo
    \/ UpdatePositions
    \/ WorkerCycle
    \/ HandleTradingSignal
    \/ ExecuteManualTrade
    \/ ConnectToMt5
    \/ StartAnalysis
    \/ StopAnalysis
    \/ DisconnectFromMt5
    \/ OnAutoTradingToggled
    \/ OnDemoModeToggled
    \/ ProdUpdatePositions
    \/ ProdCloseAllPositions
    \/ ProdWorkerCycle
    \/ ProdHandleTradingSignal

Spec == Init /\ [][Next]_vars

\* the same program, recording its close-all operations
ClosingInit == Start({"closing"})

ClosingSpec == ClosingInit /\ [][Next]_vars

(* ------------------- the controller behind its window ------------------ *)
\* MainWindow.safe_on_shadow_mode_toggle, the slot of shadow_mode_cb.toggled:
\* it calls controller.toggle_shadow_mode when the controller has one, and
\* BotController has none
OnShadowModeToggle ==
    /\ variant = "controller"
    /\ shadow_mode_cb' = ~shadow_mode_cb
    /\ UNCHANGED <<variant, observe, time_is_module, shadow_mode, calc,
                   positions, counted_date, prodVars, riskVars, clockVars,
                   is_connected, is_running, account_info, worker_running,
                   indicators_ok, last_signal_time, sigQueue, wlast, last>>

\* MainWindow.safe_on_start_bot: returns when not connected or when the
\* live-trading warning is answered No; else controller.start_bot()
SafeOnStartBot ==
    /\ variant = "controller"
    /\ \E reply \in {"Yes", "No"} :
         IF ~is_connected \/ (~shadow_mode_cb /\ reply = "No")
         THEN UNCHANGED vars
         ELSE StartBot

\* the operations of the window and of the controller it drives
GuiNext ==
    \/ Tick
    \/ ConnectMt5
    \/ OnShadowModeToggle
    \/ SafeOnStartBot
    \/ StopBot
    \/ DisconnectMt5
    \/ WorkerCycle
    \/ HandleTradingSignal

\* main.py: BotController() as constructed, `time` bound to the module
GuiInit ==
    /\ Start({"pipeline"})
    /\ variant = "controller"
    /\ shadow_mode
    /\ time_is_module

GuiSpec == GuiInit /\ [][GuiNext]_vars

(* ------------------- the calculations, on drawn inputs ----------------- *)
\* every variable of the program as the constructor left it
calcFrame == <<modeVars, prodVars, riskVars, clockVars, is_connected,
               is_running, account_info, positions, worker_running,
               indicators_ok, last_signal_time, sigQueue, counted_date,
               wlast, last>>

\* account snapshots the venue can answer with: the ones above, an empty
\* account and an overdrawn one
GateAccounts ==
    AccountSnapshots \cup
        { NoAccount,
          [present |-> TRUE, balance |-> 0, equity |-> 0],
          [present |-> TRUE, balance |-> 0 - 50, equity |-> 0 - 50] }

\* BotController.check_enhanced_risk_limits with its except branch, which
\* returns True: raised says that the body raised
risk_gate(dt, cl, acct, raised) ==
    IF raised THEN "ok" ELSE check_enhanced_risk_limits(dt, cl, acct)

\* the Risk Gate applied to one drawn RiskState and account snapshot
GateCheck ==
    /\ variant = "controller"
    /\ \E dt \in 0..MaxTradesPerDay, cl \in {0, max_consecutive_losses},
          acct \in GateAccounts, raised \in BOOLEAN :
         calc' = [fn |-> "gate", dt |-> dt, cl |-> cl, acct |-> acct,
                  raised |-> raised,
                  result |-> risk_gate(dt, cl, acct, raised)]
    /\ UNCHANGED calcFrame

(* Order preparation.  Prices and distances are integers in hundredths of
   a point, volumes in hundredths of a lot, multipliers in tenths: the
   arithmetic is the source's, on exact values. *)
Max(a, b) == IF a >= b THEN a ELSE b
Min(a, b) == IF a <= b THEN a ELSE b

\* Python round(n / d) for d > 0: to the nearest integer, a tie to the even
\* one
round(n, d) ==
    LET q == n \div d
        r == n - q * d
    IN  IF 2 * r < d THEN q
        ELSE IF 2 * r > d THEN q + 1
        ELSE IF q % 2 = 0 THEN q ELSE q + 1

\* BotController.config as constructed: the keys the sizer and the exit
\* prices concern (risk_percent, sl_percent, tp_percent in tenths of a
\* percent; sl_pips, tp_pips in hundredths)
config ==
    [risk_percent |-> 5, min_sl_points |-> 100, risk_multiple |-> 15,
     ema_periods |-> [fast |-> 9, medium |-> 21, slow |-> 50],
     rsi_period |-> 14, atr_period |-> 14,
     tp_sl_mode |-> "ATR", atr_multiplier |-> 15, tp_percent |-> 10,
     sl_percent |-> 5, tp_points |-> 150, sl_points |-> 75,
     tp_pips |-> 1500, sl_pips |-> 750]

\* tp_sl_mode values: the four calculate_enhanced_tp_sl handles and
\* "Percent", the name the settings panel has for the fourth
ExitModes == {"ATR", "Points", "Pips", "Balance%", "Percent"}

\* configurations set_config can produce
Configs ==
    { [config EXCEPT !.tp_sl_mode = m, !.risk_multiple = rm] :
        m \in ExitModes, rm \in {15, 20} }

\* symbol_info: None, or the venue's answer (point = 1 / inv_point)
NoSymbol == [present |-> FALSE]

SymbolInfos ==
    { NoSymbol,
      [present |-> TRUE, inv_point |-> 100, digits |-> 2,
       trade_tick_value |-> 1, volume_min |-> 1, volume_max |-> 10000,
       volume_step |-> 1],
      [present |-> TRUE, inv_point |-> 100, digits |-> 3,
       trade_tick_value |-> 1, volume_min |-> 10, volume_max |-> 5000,
       volume_step |-> 10],
      [present |-> TRUE, inv_point |-> 100, digits |-> 2,
       trade_tick_value |-> 0, volume_min |-> 10, volume_max |-> 5000,
       volume_step |-> 10] }

\* account_info at order time: None or a snapshot
OrderAccounts ==
    { NoAccount,
      [present |-> TRUE, balance |-> 1000, equity |-> 1000],
      [present |-> TRUE, balance |-> 100000, equity |-> 100000] }

\* signal['atr_points'] and whether signal['confidence'] > 0.8
AtrPoints == {50, 100, 250}

\* the fresh tick: bid 1999.80, ask 2000.00 at point 0.01
tick == [bid |-> 19998000, ask |-> 20000000]

\* BotController.calculate_enhanced_lot_size: path is the return taken,
\* sl_points the stop distance the volume was sized for
calculate_enhanced_lot_size(acct, sym, atr_points) ==
    IF ~acct.present THEN [path |-> "no_account", lot |-> 1]
    ELSE IF ~sym.present THEN [path |-> "no_symbol", lot |-> 1]
    ELSE
      LET sl_points_x10 == IF atr_points > 200 THEN atr_points * 8
                           ELSE Max(atr_points * 12, 750)
          \* sl_amount = sl_points * point * tick_value
          sl_amount_sign == sl_points_x10 * sym.trade_tick_value
          \* lot_size / step = risk_amount / sl_amount / step
          num == acct.balance * config.risk_percent * sym.inv_point
          den == sl_points_x10 * sym.trade_tick_value * sym.volume_step
          lot_size == round(num, den) * sym.volume_step
      IN  IF sl_amount_sign <= 0 THEN [path |-> "no_stop", lot |-> 1]
          ELSE [path |-> "sized", sl_points |-> sl_points_x10 * 10,
                lot |-> Max(sym.volume_min, Min(lot_size, sym.volume_max))]

\* the try body of calculate_enhanced_tp_sl up to the distances:
\* "raise" where the body raises, else the two distances
exit_distances(cfg, acct, sym, atr_points, high_confidence) ==
    LET mode == cfg.tp_sl_mode IN
    IF mode = "ATR" THEN
        LET sl_multiplier == IF high_confidence THEN 10 ELSE 15
            tp_multiplier == IF high_confidence THEN 20 ELSE 15
            sl_distance == Max(atr_points * sl_multiplier * 10, 5000)
        IN  [path |-> "computed", sl |-> sl_distance,
             tp |-> (sl_distance * tp_multiplier) \div 10]
    ELSE IF mode = "Points" THEN
        [path |-> "computed", sl |-> cfg.sl_points * 100,
         tp |-> cfg.tp_points * 100]
    ELSE IF mode = "Pips" THEN
        LET pip_size == IF sym.digits \in {3, 5} THEN 10 ELSE 1
        IN  [path |-> "computed", sl |-> cfg.sl_pips * pip_size,
             tp |-> cfg.tp_pips * pip_size]
    ELSE IF mode = "Balance%" THEN
        IF ~acct.present \/ sym.trade_tick_value = 0
        THEN [path |-> "raise"]
        ELSE [path |-> "computed",
              sl |-> (acct.balance * cfg.sl_percent * sym.inv_point)
                        \div (10 * sym.trade_tick_value),
              tp |-> (acct.balance * cfg.tp_percent * sym.inv_point)
                        \div (10 * sym.trade_tick_value)]
    ELSE [path |-> "raise"]

\* calculate_enhanced_tp_sl with the same price on both sides of entry
\* whatever the direction
calculate_enhanced_tp_sl_unmirrored(cfg, acct, sym, side, atr, conf) ==
    LET entry_price == IF side = "BUY" THEN tick.ask ELSE tick.bid
        d == exit_distances(cfg, acct, sym, atr, conf)
    IN  IF ~sym.present THEN [path |-> "raise", entry |-> entry_price]
        ELSE IF d.path = "raise"
        THEN [path |-> "fallback", entry |-> entry_price,
              sl_distance |-> 10000, tp_distance |-> 20000,
              tp |-> entry_price + 10000 * 2,
              sl |-> entry_price - 10000]
        ELSE [path |-> "computed", entry |-> entry_price,
              sl_distance |-> d.sl, tp_distance |-> d.tp,
              sl |-> entry_price - d.sl,
              tp |-> entry_price + d.tp]

\* BotController.calculate_enhanced_tp_sl.  Without symbol_info the body
\* raises before point is bound and the fallback raises in turn.
calculate_enhanced_tp_sl(cfg, acct, sym, side, atr_points, high_confidence) ==
    LET entry_price == IF side = "BUY" THEN tick.ask ELSE tick.bid
        multiplier == IF side = "BUY" THEN 1 ELSE 0 - 1
        d == exit_distances(cfg, acct, sym, atr_points, high_confidence)
    IN  IF ~sym.present THEN [path |-> "raise", entry |-> entry_price]
        ELSE IF d.path = "raise"
        THEN [path |-> "fallback", entry |-> entry_price,
              sl_distance |-> 10000, tp_distance |-> 20000,
              tp |-> entry_price + multiplier * 10000 * 2,
              sl |-> entry_price - multiplier * 10000]
        ELSE [path |-> "computed", entry |-> entry_price,
              sl_distance |-> d.sl, tp_distance |-> d.tp,
              sl |-> entry_price - multiplier * d.sl,
              tp |-> entry_price + multiplier * d.tp]

\* execute_enhanced_signal from the sizer to the order request, connected
\* and with a fresh tick: the request is built unless a step raised
PrepareOrder ==
    /\ variant = "controller"
    /\ \E cfg \in Configs, acct \in OrderAccounts, sym \in SymbolInfos,
          side \in Sides, atr_points \in AtrPoints,
          high_confidence \in BOOLEAN :
         LET size == calculate_enhanced_lot_size(acct, sym, atr_points)
             exits == calculate_enhanced_tp_sl(cfg, acct, sym, side,
                                               atr_points, high_confidence)
         IN  calc' = [fn |-> "order", cfg |-> cfg, acct |-> acct,
                      sym |-> sym, side |-> side, atr_points |-> atr_points,
                      high_confidence |-> high_confidence,
                      size |-> size, exits |-> exits,
                      submitted |-> size.lot > 0 /\ exits.path # "raise"]
    /\ UNCHANGED calcFrame

\* MT5TradingController.config as constructed (risk_percent in tenths of
\* a percent, tp_value and sl_value in tenths)
prod_config ==
    [risk_percent |-> 10, tp_mode |-> "ATR", tp_value |-> 20,
     sl_value |-> 15, ema_fast |-> 9, ema_medium |-> 21, ema_slow |-> 50,
     rsi_period |-> 14, atr_period |-> 14]

\* tp_mode values of the settings panel
ProdConfigs == { [prod_config EXCEPT !.tp_mode = m] : m \in {"ATR", "Points"} }

\* signal['atr'] in points; calculate_indicators gives 0 for an empty
\* series
ProdAtrPoints == {0, 50, 100}

\* MT5TradingController.calculate_lot_size
calculate_lot_size(acct, sym, atr_points) ==
    IF ~acct.present THEN [path |-> "no_account", lot |-> 1]
    ELSE IF ~sym.present THEN [path |-> "error", lot |-> 1]
    ELSE
      LET sl_distance_points_x10 == atr_points * prod_config.sl_value
          num == acct.balance * prod_config.risk_percent
          den == atr_points * prod_config.sl_value * sym.trade_tick_value
                     * sym.volume_step
          lot_rounded == round(num, den) * sym.volume_step
      IN  IF sl_distance_points_x10 <= 0
          THEN [path |-> "no_stop", lot |-> sym.volume_min]
          ELSE IF sym.trade_tick_value = 0
          THEN [path |-> "error", lot |-> sym.volume_min]
          ELSE [path |-> "sized",
                lot |-> Max(sym.volume_min,
                            Min(lot_rounded, sym.volume_max))]

\* MT5TradingController.calculate_tp_sl: the except branch returns 0, 0
calculate_tp_sl(cfg, sym, action, atr_points, entry_price) ==
    IF ~sym.present
    THEN [path |-> "zero", entry |-> entry_price, sl |-> 0, tp |-> 0]
    ELSE
      LET sl_distance == IF cfg.tp_mode = "ATR"
                         THEN atr_points * cfg.sl_value * 10
                         ELSE cfg.sl_value * 10
          tp_distance == IF cfg.tp_mode = "ATR"
                         THEN atr_points * cfg.tp_value * 10
                         ELSE cfg.tp_value * 10
      IN  [path |-> "computed", entry |-> entry_price,
           sl_distance |-> sl_distance, tp_distance |-> tp_distance,
           sl |-> IF action = "BUY" THEN entry_price - sl_distance
                  ELSE entry_price + sl_distance,
           tp |-> IF action = "BUY" THEN entry_price + tp_distance
                  ELSE entry_price - tp_distance]

\* execute_trade from the sizer to the order request, for a signal with
\* an action and an entry price: the request is always built
ProdPrepareOrder ==
    /\ variant = "production"
    /\ \E cfg \in ProdConfigs, acct \in OrderAccounts, sym \in SymbolInfos,
          action \in Sides, atr_points \in ProdAtrPoints :
         LET entry_price == IF action = "BUY" THEN tick.ask ELSE tick.bid
         IN  calc' = [fn |-> "order", cfg |-> cfg, acct |-> acct,
                      sym |-> sym, side |-> action,
                      atr_points |-> atr_points, high_confidence |-> FALSE,
                      size |-> calculate_lot_size(acct, sym, atr_points),
                      exits |-> calculate_tp_sl(cfg, sym, action,
                                                atr_points, entry_price),
                      submitted |-> TRUE]
    /\ UNCHANGED calcFrame

\* copy_rates_from_pos: None, or that many bars (at most the 200 asked)
NoRates == 0 - 1

BarCounts == {NoRates, 0, 20, 49, 50, 200}

\* AnalysisWorker.analyze_timeframe on bars bars: where each value of the
\* snapshot comes from.  An empty series raises at close[-1] and yields {}.
analyze_timeframe(bars) ==
    IF bars = 0 THEN [empty |-> TRUE]
    ELSE [empty |-> FALSE,
          ema_fast |-> IF bars >= config.ema_periods.fast
                       THEN "ema" ELSE "close",
          ema_medium |-> IF bars >= config.ema_periods.medium
                         THEN "ema" ELSE "close",
          ema_slow |-> IF bars >= config.ema_periods.slow
                       THEN "ema" ELSE "close",
          rsi |-> IF bars >= config.rsi_period + 1
                  THEN "rsi" ELSE "neutral",
          atr |-> IF bars >= config.atr_period + 1
                  THEN "atr" ELSE "floor"]

\* AnalysisWorker.perform_technical_analysis: the snapshot written to
\* current_indicators, or abstention
perform_technical_analysis(m1, m5) ==
    IF m1 = NoRates \/ m5 = NoRates \/ m1 < 50
    THEN [emitted |-> FALSE]
    ELSE [emitted |-> TRUE, M1 |-> analyze_timeframe(m1),
          M5 |-> analyze_timeframe(m5)]

\* one analysis of the controller's worker on drawn bar counts
Analyse ==
    /\ variant = "controller"
    /\ \E m1 \in BarCounts, m5 \in BarCounts :
         calc' = [fn |-> "snapshot", m1 |-> m1, m5 |-> m5,
                  slowest |-> config.ema_periods.slow,
                  snapshot |-> perform_technical_analysis(m1, m5)]
    /\ UNCHANGED calcFrame

\* MarketAnalysisWorker.calculate_indicators: an empty indicator series
\* is replaced by 0 (50 for the RSI)
calculate_indicators(bars) ==
    [empty |-> FALSE,
     ema_fast |-> IF bars >= prod_config.ema_fast THEN "ema" ELSE "zero",
     ema_medium |-> IF bars >= prod_config.ema_medium
                    THEN "ema" ELSE "zero",
     ema_slow |-> IF bars >= prod_config.ema_slow THEN "ema" ELSE "zero",
     rsi |-> IF bars >= prod_config.rsi_period + 1
             THEN "rsi" ELSE "neutral",
     atr |-> IF bars >= prod_config.atr_period + 1 THEN "atr" ELSE "zero"]

\* MarketAnalysisWorker.process_bar_data
process_bar_data(m1, m5) ==
    IF m1 = NoRates \/ m5 = NoRates THEN [emitted |-> FALSE]
    ELSE IF m1 < 50 \/ m5 < 50 THEN [emitted |-> FALSE]
    ELSE [emitted |-> TRUE, M1 |-> calculate_indicators(m1),
          M5 |-> calculate_indicators(m5)]

\* one analysis of the production worker on drawn bar counts
ProdAnalyse ==
    /\ variant = "production"
    /\ \E m1 \in BarCounts, m5 \in BarCounts :
         calc' = [fn |-> "snapshot", m1 |-> m1, m5 |-> m5,
                  slowest |-> prod_config.ema_slow,
                  snapshot |-> process_bar_data(m1, m5)]
    /\ UNCHANGED calcFrame

CalcNext ==
    \/ GateCheck
    \/ Analyse
    \/ ProdAnalyse
    \/ PrepareOrder
    \/ ProdPrepareOrder

CalcInit == Start({"pipeline"}) /\ shadow_mode /\ time_is_module

CalcSpec == CalcInit /\ [][CalcNext]_vars

(* ------------------------------ claims --------------------------------- *)
\* C1: each intent that passes the gates is sent exactly once: for one
\* emitted BUY/SELL signal the order-execution routine is entered at most
\* once on every path from the analysis worker to the controller.
C1_SentOnce == last.execs <= 1

\* C2: the Risk Gate rejects every intent while daily_trades equals or
\* exceeds max_trades_per_day, with the daily-limit reason, and
\* handle_trading_signal then submits no order.
C2_DailyLimitGate ==
    (last.op = "auto" /\ last.dt_before >= MaxTradesPerDay)
        => /\ last.gate = "daily_limit"
           /\ last.execs = 0
           /\ last.attempts = 0

\* a live, running, connected controller turned an intent away at the limit
C2_Witness ==
    /\ last.op = "auto"
    /\ last.gate = "daily_limit"
    /\ last.dt_before = MaxTradesPerDay
    /\ ~shadow_mode /\ is_running /\ is_connected

\* C3: while shadow_mode is true no signal handled by handle_trading_signal
\* leads to a submission: the execution routine is not entered, order_send
\* is not called and the trade counter stays as it was.
C3_ShadowNoOrder ==
    (shadow_mode /\ last.op = "auto")
        => /\ last.execs = 0
           /\ last.attempts = 0
           /\ last.rows = 0
           /\ daily_trades = last.dt_before

\* a running bot in shadow mode handled an intent that passed the Risk Gate
C3_Witness ==
    /\ shadow_mode
    /\ last.op = "auto"
    /\ last.gate = "ok"
    /\ is_running /\ is_connected

\* C4: when the venue rejects the first submission with a fill-mode error
\* and would accept the retry with the alternate fill policy, the
\* execution of an intent ends ACCEPTED with exactly one audit row.
C4_RetryAccepted ==
    (/\ last.op \in {"auto", "direct", "prod_auto"}
     /\ last.attempts >= 1
     /\ last.fill_first
     /\ last.retry_ok)
        => /\ last.outcome = "ACCEPTED"
           /\ last.rows = 1

\* C5: a fill-mode rejection of the first submission is followed by one
\* retry before the rejection is final, and no intent takes more than
\* three submission attempts.
C5_RetryOnce ==
    /\ last.attempts <= 3
    /\ (last.attempts >= 1 /\ last.fill_first) => last.attempts = 2

\* C6: daily_trades counts accepted orders only: an execution of
\* BotController (automatic or manual) that ends ACCEPTED adds exactly one
\* to daily_trades, whatever the number of submissions; one that ends
\* REJECTED leaves daily_trades and consecutive_losses as they were.
C6_CountsAcceptedOnly ==
    (last.op \in {"auto", "manual"} /\ last.execs > 0)
        => /\ (last.outcome = "ACCEPTED")
                => (daily_trades = last.dt_before + 1)
           /\ (last.outcome = "REJECTED")
                => /\ daily_trades = last.dt_before
                   /\ consecutive_losses = last.cl_before

\* an automatic order accepted on the retry was counted once
C6_Witness ==
    /\ last.op = "auto"
    /\ last.outcome = "ACCEPTED"
    /\ last.attempts = 2
    /\ daily_trades = last.dt_before + 1

\* C7: RiskState is reset once per calendar day, before the next intent is
\* gated: an intent is turned away for the daily limit only by a counter of
\* the current date (last_reset_date is today when the gate runs).
C7_DailyReset ==
    (last.op = "auto" /\ last.gate = "daily_limit") => ~last.stale

\* C8: no operation lowers daily_trades, daily_pnl or consecutive_losses
\* while the calendar date is unchanged.
C8_NoMidDayReset ==
    [][(Today(now') = Today(now))
          => /\ daily_trades' >= daily_trades
             /\ daily_pnl' >= daily_pnl
             /\ consecutive_losses' >= consecutive_losses]_vars

\* trades were counted, then the bot was stopped and disconnected on the
\* same day, and the count is still there
C8_Witness ==
    /\ variant = "controller"
    /\ daily_trades = MaxTradesPerDay
    /\ ~is_connected /\ ~is_running /\ ~worker_running
    /\ Today(now) = Today(NowStart)

\* C9: consecutive_losses changes only in a step that observes a position
\* closed; a step in which an order (automatic or manual) is accepted leaves
\* it as it was.
C9_LossesOnlyFromClosedPosition ==
    [][/\ (consecutive_losses' # consecutive_losses)
             => (positions' < positions)
       /\ (last' # last /\ last'.outcome = "ACCEPTED")
             => (consecutive_losses' = consecutive_losses)]_vars

\* a manual order was accepted, a position is open, and the loss counter is
\* the one the order found
C9_Witness ==
    /\ last.op = "manual"
    /\ last.outcome = "ACCEPTED"
    /\ positions = MaxPositions
    /\ consecutive_losses = last.cl_before

\* C10: after an intent was emitted at time t, a second intent generated at
\* t2 is dropped when t2 - t is less than the cooldown and emitted when
\* t2 - t is the cooldown or more.
C10_CooldownBoundary ==
    (wlast.gen /\ wlast.prev)
        => (wlast.emitted <=>
              (wlast.elapsed >= (IF variant = "controller"
                                 THEN signal_cooldown
                                 ELSE prod_signal_cooldown)))

\* C11: mid-bar suppression: a cycle whose latest bar is the bar of an
\* earlier emitted intent emits no second intent, so one bar yields at
\* most one intent.
C11_OneIntentPerBar == wlast.emitted => ~wlast.same_bar

\* C12: every invocation of close_all_positions ends with the bot stopped:
\* is_running false and the analysis worker stopped.
C12_CloseAllHalts == (last.op = "close_all") => last.stopped

\* C13: close all tries a closing order for every position open at the
\* venue and reports the aggregate: with n open of which k close, k
\* successes and n - k failures.
C13_CloseAllAggregate ==
    (last.op = "close_all" /\ last.reachable)
        => /\ last.attempted = last.open
           /\ last.rep_closed = last.closed
           /\ last.rep_failed = last.open - last.closed

\* C15: the Risk Gate accepts an intent only with an obtainable account
\* snapshot whose balance and equity are positive, and never when the gate
\* itself failed.
C15_GateNeedsAccount ==
    (calc.fn = "gate" /\ calc.result = "ok")
        => /\ ~calc.raised
           /\ calc.acct.present
           /\ calc.acct.balance > 0
           /\ calc.acct.equity > 0

\* C16: the Risk Gate accepts an intent only when the drawdown
\* (balance - equity) / balance is below the ceiling; at the ceiling or
\* above it the intent is rejected.
C16_DrawdownBelowCeiling ==
    (/\ calc.fn = "gate"
     /\ ~calc.raised
     /\ calc.acct.present
     /\ calc.acct.balance > 0
     /\ calc.result = "ok")
        => ((calc.acct.balance - calc.acct.equity) * 100
              < max_drawdown_percent * calc.acct.balance)

\* C14: no order is submitted when the account or instrument metadata the
\* exit-price mode requires is unavailable or the mode is not a handled
\* one: never with fallback exit prices or a default volume.
C14_AbstainWithoutMetadata ==
    (calc.fn = "order" /\ calc.submitted)
        => /\ calc.exits.path = "computed"
           /\ calc.size.path = "sized"

\* C17: the Position Sizer's volume lies in [volume_min, volume_max] and
\* is an integer multiple of volume_step on every return path.
C17_VolumeWithinSymbolLimits ==
    (calc.fn = "order" /\ calc.sym.present)
        => /\ calc.size.lot >= calc.sym.volume_min
           /\ calc.size.lot <= calc.sym.volume_max
           /\ calc.size.lot % calc.sym.volume_step = 0

\* C18: in ATR exit mode the stop distance is
\* max(min_sl_points, ATR_points x atr_multiplier) and the target distance
\* is the stop distance x risk_multiple, from the configured values:
\* ATR 100 with 1.5 and 2.0 gives 150 and 300 points.
C18_AtrDistancesFromConfig ==
    (/\ calc.fn = "order"
     /\ variant = "controller"
     /\ calc.cfg.tp_sl_mode = "ATR"
     /\ calc.exits.path = "computed")
        => LET stop == Max(calc.cfg.min_sl_points * 100,
                           calc.atr_points * calc.cfg.atr_multiplier * 10)
           IN  /\ calc.exits.sl_distance = stop
               /\ calc.exits.tp_distance
                      = (stop * calc.cfg.risk_multiple) \div 10

\* C19: exit prices are mirrored by direction on every return path that
\* yields distances, the fallback included: with positive distances a BUY
\* has stop < entry < target and a SELL has target < entry < stop.
C19_MirroredByDirection ==
    (/\ calc.fn = "order"
     /\ calc.exits.path \in {"computed", "fallback"}
     /\ calc.exits.sl_distance > 0
     /\ calc.exits.tp_distance > 0)
        => IF calc.side = "BUY"
           THEN calc.exits.sl < calc.exits.entry
                    /\ calc.exits.entry < calc.exits.tp
           ELSE calc.exits.tp < calc.exits.entry
                    /\ calc.exits.entry < calc.exits.sl

C19_Witness ==
    /\ calc.fn = "order"
    /\ calc.side = "SELL"
    /\ calc.exits.path = "fallback"
    /\ calc.exits.tp = calc.exits.entry - 20000
    /\ calc.exits.sl = calc.exits.entry + 10000

\* C20: no indicator snapshot is emitted for a timeframe with fewer bars
\* than the warm-up count of its slowest period; with too few bars on
\* either timeframe the cycle abstains, it does not substitute the last
\* close for the missing indicator.
C20_NoSnapshotBeforeWarmUp ==
    (calc.fn = "snapshot" /\ calc.snapshot.emitted)
        => /\ calc.m1 >= calc.slowest
           /\ calc.m5 >= calc.slowest

\* C21: stopping does not leave an order behind: once stop_bot /
\* stop_analysis has reported the bot stopped, and until it is started
\* again, no queued intent handled by the pipeline leads to a submission.
C21_NoSubmissionAfterStop ==
    [][(/\ (IF variant = "controller" THEN ~is_running ELSE ~worker_running)
        /\ Len(sigQueue') < Len(sigQueue))
          => last'.attempts = 0]_vars

\* C22: data unavailability means abstention: a polling cycle in which the
\* adapter gave no bar history emits no BUY/SELL intent, in particular not
\* from the indicator values an earlier cycle left.
C22_AbstainWithoutData == wlast.emitted => ~wlast.stale_bars

\* C23: the audit log has exactly one row per terminal order outcome: an
\* execution of the pipeline that submitted an order and ended ACCEPTED or
\* REJECTED wrote exactly one row.
C23_OneRowPerOutcome ==
    (/\ last.op \in {"auto", "direct", "prod_auto"}
     /\ last.attempts >= 1
     /\ last.outcome \in {"ACCEPTED", "REJECTED"})
        => last.rows = 1

\* C24: a directional signal reaches the controller: a cycle of
\* AnalysisWorker.run whose generate_trading_signal returned a side
\* evaluates the cooldown comparison without raising, and never ends in the
\* "Analysis error" branch.
C24_CooldownCheckRuns ==
    (variant = "controller" /\ wlast.gen) => ~wlast.error

\* C25: the controller's shadow_mode follows the window's Shadow Mode
\* checkbox: with the box unchecked and the bot started, shadow_mode is
\* false.
C25_ShadowFollowsCheckbox ==
    (variant = "controller" /\ is_running /\ ~shadow_mode_cb) => ~shadow_mode

\* C26: in production_mt5_bot.py demo_mode is the state of the Demo Mode
\* checkbox from the start, so while the box is checked no step submits an
\* order: neither the worker's own execution of the signal it emits nor the
\* controller's handling of a queued signal.
C26_DemoCheckboxBlocksOrders ==
    [][(variant = "production" /\ demo_mode_cb)
          => /\ ~(/\ Len(sigQueue') > Len(sigQueue)
                  /\ sigQueue'[Len(sigQueue')].execs >= 1)
             /\ ~(/\ Len(sigQueue') < Len(sigQueue)
                  /\ last'.attempts >= 1)]_vars

\* C27: daily_trades never exceeds max_trades_per_day in any reachable
\* state of BotController, however automatic executions and manual trades
\* interleave.
C27_DailyTradesWithinLimit ==
    (variant = "controller") => (daily_trades <= MaxTradesPerDay)

C29_SizedForSubmittedStop ==
    (/\ calc.fn = "order"
     /\ variant = "controller"
     /\ calc.submitted
     /\ calc.size.path = "sized"
     /\ calc.exits.path = "computed")
        => calc.size.sl_points = calc.exits.sl_distance

\* C30: in every reachable state of BotController is_running implies
\* is_connected, whatever the sequence of connect_mt5, start_bot, stop_bot,
\* disconnect_mt5 and close_all_positions, failed connects and a venue lost
\* while running included.
C30_RunningImpliesConnected ==
    (variant = "controller") => (is_running => is_connected)

\* the bot runs on a connection, its worker has a signal on the way, and
\* the clock has moved on
C30_Witness ==
    /\ variant = "controller"
    /\ is_running
    /\ is_connected
    /\ worker_running
    /\ sigQueue # <<>>
    /\ ticks > 0

====
